---- MODULE Spec2Model ----
(***************************************************************************)
(* A model of nyson/mat (src/mat.py): the lunch-menu aggregator.           *)
(*                                                                         *)
(* Strings are sequences of Unicode code points, so that Python's string   *)
(* comparison, slicing, strip() and the character class of the regular     *)
(* expression in infer_title are computed as Python computes them.         *)
(* An optional string (str | None) is a record [some, val].                *)
(***************************************************************************)
EXTENDS Integers, Sequences, FiniteSets, TLC

VARIABLES
    settings,     \* Mat.settings: the parsed command line options
    directory,    \* the files of settings.plugin_directory
    plugins,      \* Mat._plugins: None, or the generator of _load_plugins
    calls,        \* number of get_dishes / print_menu calls made so far
    made,         \* the plugins the last get_dishes pass invoked, in order, with what
                  \* food did and what make_resturant made of it
    result,       \* what the last get_dishes call returned
    pc,           \* position of the caller: idle, describe (inside print_menu), done, aborted
    pending,      \* print_menu: Restaurants of the for loop not yet described
    rendered,     \* print_menu: Restaurants described so far, with the lines of each
    stream,       \* Mat.stream: the PrintStream (indent, buffered lines)
    out,          \* what the last print_menu call wrote to standard output
    arg,          \* string functions: the argument string
    inferred,     \* string functions: what infer_title(arg) returned
    food,         \* string functions: the Food built by Food(arg, arg)
    tpc           \* string functions: which function has run

vars == <<settings, directory, plugins, calls, made, result, pc, pending,
          rendered, stream, out, arg, inferred, food, tpc>>

matVars == <<settings, directory, plugins, calls, made, result, pc, pending,
             rendered, stream, out>>

strVars == <<arg, inferred, food, tpc>>

-----------------------------------------------------------------------------
(* Bounds of the model.                                                    *)

\* get_dishes / print_menu calls made on one Mat instance
MaxCalls == 2
\* dishes one plugin reports for one date
MaxDishes == 2
\* length of the freely chosen window of characters inside an argument string
WinLen == 3

-----------------------------------------------------------------------------
(* Characters and strings.                                                 *)

INFERRED_TITLE_MAX_LENGTH == 50

\* the limit Food.__init__ passes to truncate
TITLE_MAX_LENGTH == 100

SPACE == 32
NEWLINE == 10

\* "..."
DOTS == <<46, 46, 46>>

\* The characters str.strip() removes (Python's str.isspace on the code
\* points below 256).
IsWhitespace(c) ==
    \/ c \in 9..13
    \/ c \in 28..32
    \/ c = 133
    \/ c = 160

None == [some |-> FALSE, val |-> <<>>]

Some(s) == [some |-> TRUE, val |-> s]

\* Python truthiness of a str | None value: None and "" are false.
Truthy(o) == o.some /\ o.val # <<>>

\* Python's str comparison a < b: lexicographic by code point.
StrLT(a, b) ==
    \E i \in 1..(Len(b)) :
        /\ \A k \in 1..(i - 1) : k <= Len(a) /\ a[k] = b[k]
        /\ i - 1 <= Len(a)
        /\ (i > Len(a) \/ a[i] < b[i])

StrLE(a, b) == a = b \/ StrLT(a, b)

\* s[:n] for n >= 0
Take(s, n) == SubSeq(s, 1, IF n < Len(s) THEN n ELSE Len(s))

\* s[-n:] for n > 0
Last(s, n) == SubSeq(s, IF Len(s) > n THEN Len(s) - n + 1 ELSE 1, Len(s))

\* s[0:-n] for n > 0
DropLast(s, n) == SubSeq(s, 1, Len(s) - n)

\* str.strip()
strip(s) ==
    LET keep == {i \in 1..Len(s) : ~IsWhitespace(s[i])}
    IN  IF keep = {} THEN <<>>
        ELSE SubSeq(s, CHOOSE i \in keep : \A j \in keep : i <= j,
                       CHOOSE i \in keep : \A j \in keep : i >= j)

\* str.replace('\n', ' ')
replace_newlines(s) == [i \in 1..Len(s) |-> IF s[i] = NEWLINE THEN SPACE ELSE s[i]]

truncate(max_length, str) ==
    IF Len(str) > max_length
    THEN Take(str, max_length) \o DOTS
    ELSE str

\* Food.__init__
Food(title, description) ==
    [title |-> IF Truthy(title)
               THEN Some(truncate(TITLE_MAX_LENGTH, replace_newlines(strip(title.val))))
               ELSE title,
     description |-> IF Truthy(description)
                     THEN Some(strip(description.val))
                     ELSE description]

\* The character class [ .,-:;!] of infer_title's pattern. Inside a class
\* ",-:" is the range from ',' (44) to ':' (58): it holds ',', '-', '.',
\* '/', the digits and ':'.
BoundaryClass == {32, 46} \cup (44..58) \cup {59, 33}

\* The seven characters the pattern lists, the hyphen read as itself.
ListedBoundary == {32, 46, 44, 45, 58, 59, 33}

\* Where a match of  class+ [^ ]+ $  can start in s.
MatchStarts(s, class) ==
    {i \in 1..Len(s) :
        \E j \in (i + 1)..Len(s) :
            /\ \A k \in i..(j - 1) : s[k] \in class
            /\ \A k \in j..Len(s) : s[k] # SPACE}

\* re.sub(class+ [^ ]+ $, "", s): the leftmost match runs to the end of s
\* and is removed; no match leaves s as it is.
re_sub_tail(s, class) ==
    LET starts == MatchStarts(s, class)
    IN  IF starts = {} THEN s
        ELSE Take(s, (CHOOSE i \in starts : \A j \in starts : i <= j) - 1)

infer_title_cut_at_max(description) ==
    IF Len(description) > INFERRED_TITLE_MAX_LENGTH
    THEN LET truncated_description == strip(Take(description, INFERRED_TITLE_MAX_LENGTH))
         IN  IF description[INFERRED_TITLE_MAX_LENGTH - 2 + 1] = SPACE
             THEN truncated_description \o DOTS
             ELSE re_sub_tail(truncated_description, BoundaryClass) \o DOTS
    ELSE description

infer_title_no_strip_tail(description) ==
    IF Len(description) > INFERRED_TITLE_MAX_LENGTH
    THEN strip(Take(description, INFERRED_TITLE_MAX_LENGTH - 3)) \o DOTS
    ELSE description

\* Mat.infer_title; description[i] of Python is description[i + 1] here.
infer_title(description) ==
    IF Len(description) > INFERRED_TITLE_MAX_LENGTH
    THEN LET truncated_description ==
                 strip(Take(description, INFERRED_TITLE_MAX_LENGTH - 3))
         IN  IF description[INFERRED_TITLE_MAX_LENGTH - 2 + 1] = SPACE
             THEN truncated_description \o DOTS
             ELSE re_sub_tail(truncated_description, BoundaryClass) \o DOTS
    ELSE description

-----------------------------------------------------------------------------
(* The string functions, run on their own: infer_title and Food.__init__   *)
(* applied to an argument string.                                          *)

\* 'A', ' ', '.', '1', '\n', '/'
WinChars == {65, 32, 46, 49, 10, 47}

\* 'A', 'a', '1', '.', ',', '-', ':', ';', '!', '/'
RepChars == {65, 97, 49, 46, 44, 45, 58, 59, 33, 47}

Rep(n, c) == [i \in 1..n |-> c]

Windows == UNION {[1..n -> WinChars] : n \in 0..WinLen}

\* Argument strings: a window of freely chosen characters between two runs
\* of 'A', placed at the start, around the cut of infer_title (index 47, and
\* the index 48 it reads) and around the limit of truncate (100); and the
\* strings of 60 equal characters.
StrArgs ==
    {Rep(n1, 65) \o w \o Rep(n2, 65) :
        n1 \in {0, 44, 45, 46, 47, 48, 97, 99}, w \in Windows, n2 \in {0, 2, 4, 13}}
    \cup {Rep(60, c) : c \in RepChars}

NoFood == [title |-> None, description |-> None]

MatIdle ==
    /\ settings = [tomorrow |-> FALSE, verbose |-> FALSE, quiet |-> FALSE,
                   with_stacktrace |-> FALSE, print_markdown |-> FALSE]
    /\ directory = {}
    /\ plugins = [created |-> FALSE, remaining |-> <<>>]
    /\ calls = 0
    /\ made = <<>>
    /\ result = <<>>
    /\ pc = "idle"
    /\ pending = <<>>
    /\ rendered = <<>>
    /\ stream = [indent |-> 0, lines |-> <<>>, raised |-> FALSE]
    /\ out = <<>>

StrIdle ==
    /\ arg = <<>>
    /\ inferred = <<>>
    /\ food = NoFood
    /\ tpc = "none"

InitStr ==
    /\ MatIdle
    /\ arg \in StrArgs
    /\ inferred = <<>>
    /\ food = NoFood
    /\ tpc = "start"

CallInferTitle ==
    /\ tpc = "start"
    /\ inferred' = infer_title(arg)
    /\ tpc' = "infer_title"
    /\ UNCHANGED <<arg, food>>
    /\ UNCHANGED matVars

CallFood ==
    /\ tpc = "start"
    /\ food' = Food(Some(arg), Some(arg))
    /\ tpc' = "Food"
    /\ UNCHANGED <<arg, inferred>>
    /\ UNCHANGED matVars

NextStr == CallInferTitle \/ CallFood

SpecStr == InitStr /\ [][NextStr]_vars

-----------------------------------------------------------------------------
(* Plugins, dishes and Restaurants.                                        *)

\* ".py"
PY == <<46, 112, 121>>

\* "a.py", "b.py" and "b.pyc"
FileA == <<97>> \o PY
FileB == <<98>> \o PY
FileC == <<98, 46, 112, 121, 99>>

\* "as" and "Ba": as Python compares strings, "Ba" < "as"
NameLower == <<97, 115>>
NameUpper == <<66, 97>>

\* A plugin directory: its files, each with the string its name() returns
\* once loaded. FileC does not end in ".py".
Directories ==
    {{[file |-> FileA, name |-> NameLower], [file |-> FileB, name |-> NameUpper],
      [file |-> FileC, name |-> <<>>]},
     {[file |-> FileA, name |-> NameUpper], [file |-> FileB, name |-> NameLower],
      [file |-> FileC, name |-> <<>>]}}

Settings ==
    [tomorrow : BOOLEAN, verbose : BOOLEAN, quiet : BOOLEAN,
     with_stacktrace : BOOLEAN, print_markdown : BOOLEAN]

\* "Pasta", "With tomato sauce", "Soup"
Pasta == <<80, 97, 115, 116, 97>>
TomatoSauce == <<87, 105, 116, 104, 32, 116, 111, 109, 97, 116, 111, 32, 115, 97, 117, 99, 101>>
Soup == <<83, 111, 117, 112>>

\* 55 characters: 45 'a', a space, 9 'b'
LongDescription == Rep(45, 97) \o <<SPACE>> \o Rep(9, 98)

\* The dishes a plugin may report in a list, each built by api.food: with
\* title and description, with a description only, and with neither.
DishPool ==
    {Food(Some(Pasta), Some(TomatoSauce)),
     Food(None, Some(LongDescription)),
     Food(None, None)}

\* What a generator may yield: nothing, or one dish with a title only, as
\* the Solrosen plugin builds its dishes.
GeneratorMenus == {<<>>, <<Food(Some(Soup), None)>>}

IsInjective(f) == \A i, j \in DOMAIN f : f[i] = f[j] => i = j

\* The dish sequences a plugin may report for one date: no dish twice.
Menus ==
    UNION {{m \in [1..n -> DishPool] : IsInjective(m)} : n \in 0..MaxDishes}

\* What one call of a plugin's food(api, date) does: it raises, it returns a
\* list, or it returns a generator that yields its items when consumed and
\* then ends or raises.
Outcomes ==
    {[kind |-> "raise", items |-> <<>>, fails |-> FALSE]}
    \cup {[kind |-> "list", items |-> m, fails |-> FALSE] : m \in Menus}
    \cup {[kind |-> "generator", items |-> m, fails |-> f] :
            m \in GeneratorMenus, f \in BOOLEAN}

\* "E" and "boom": the type name and the message of the exception a plugin raises
NoError == [some |-> FALSE, type |-> <<>>, msg |-> <<>>]
PluginError == [some |-> TRUE, type |-> <<69>>, msg |-> <<98, 111, 111, 109>>]

\* "Traceback"
Traceback == <<84, 114, 97, 99, 101, 98, 97, 99, 107>>

EmptyList == [lazy |-> FALSE, items |-> <<>>, fails |-> FALSE]

\* Restaurant.__init__
Restaurant(name, dishes, error, errorTrace) ==
    [name |-> name, dishes |-> dishes, error |-> error, errorTrace |-> errorTrace]

\* Python truthiness of Restaurant.dishes: a list is true when it is not
\* empty, a generator object is always true.
DishesTruthy(dishes) == dishes.lazy \/ dishes.items # <<>>

\* The sort of Python's sorted, on a sequence of [key, val] pairs: stable,
\* ascending by StrLT on the keys.
InsertByKey(p, ys) ==
    LET after == {j \in 1..Len(ys) : StrLT(p.key, ys[j].key)}
        at == IF after = {} THEN Len(ys) + 1
              ELSE CHOOSE j \in after : \A k \in after : j <= k
    IN  SubSeq(ys, 1, at - 1) \o <<p>> \o SubSeq(ys, at, Len(ys))

RECURSIVE SortPairs(_)
SortPairs(xs) ==
    IF xs = <<>> THEN <<>>
    ELSE InsertByKey(xs[Len(xs)], SortPairs(SubSeq(xs, 1, Len(xs) - 1)))

sorted_unsorted(ps) == [i \in 1..Len(ps) |-> ps[i].val]

\* sorted(xs, key = f), xs given as the pairs [key |-> f(x), val |-> x].
sorted(ps) == [i \in 1..Len(ps) |-> SortPairs(ps)[i].val]

\* os.listdir(directory), as a sequence in some order
RECURSIVE SetToSeq(_)
SetToSeq(S) ==
    IF S = {} THEN <<>>
    ELSE LET x == CHOOSE x \in S : TRUE IN <<x>> \o SetToSeq(S \ {x})

\* Mat._load_plugins: what the generator yields, in order.
_load_plugins(dir) ==
    LET files == sorted([i \in 1..Cardinality(dir) |->
                            [key |-> SetToSeq(dir)[i].file, val |-> SetToSeq(dir)[i]]])
        py == SelectSeq(files, LAMBDA f : Last(f.file, 3) = PY)
    IN  [i \in 1..Len(py) |-> [module |-> DropLast(py[i].file, 3), name |-> py[i].name]]

make_resturant_no_try(plugin, date, outcome) ==
    IF outcome.kind = "raise"
    THEN [raised |-> TRUE, r |-> Restaurant(plugin.name, EmptyList, NoError, None)]
    ELSE [raised |-> FALSE,
          r |-> Restaurant(plugin.name,
                           [lazy |-> outcome.kind = "generator",
                            items |-> outcome.items, fails |-> outcome.fails],
                           NoError, None)]

\* Mat.make_resturant: outcome is what plugin.food(foodAPI, date) does.
make_resturant(plugin, date, outcome) ==
    IF outcome.kind = "raise"
    THEN [raised |-> FALSE,
          r |-> Restaurant(plugin.name, EmptyList, PluginError, Some(Traceback))]
    ELSE [raised |-> FALSE,
          r |-> Restaurant(plugin.name,
                           [lazy |-> outcome.kind = "generator",
                            items |-> outcome.items, fails |-> outcome.fails],
                           NoError, None)]

\* The filter of get_dishes.
keep_restaurant(r, s) == DishesTruthy(r.dishes) \/ (~s.quiet /\ r.error.some)

\* list(...) of an iterable of make_resturant results: 0 when none raised,
\* else the index of the first that did.
FirstRaised(all) ==
    IF \A i \in 1..Len(all) : ~all[i].raised THEN 0
    ELSE CHOOSE i \in 1..Len(all) : all[i].raised /\ \A j \in 1..(i - 1) : ~all[j].raised

\* The filter and the sort of get_dishes, and what the pass leaves behind:
\* ms are the plugins the generator still held, all the result of
\* make_resturant for each, k the index of the first that raised (0: none).
finish_pass(ms, outcomes, all, k) ==
    [raised |-> k # 0,
     plugins |-> [created |-> TRUE,
                  remaining |-> IF k = 0 THEN <<>> ELSE SubSeq(ms, k + 1, Len(ms))],
     made |-> [i \in 1..(IF k = 0 THEN Len(ms) ELSE k) |->
                  [module |-> ms[i].module, outcome |-> outcomes[ms[i].module],
                   raised |-> all[i].raised, r |-> all[i].r]],
     result |-> IF k = 0
                THEN sorted(SelectSeq([i \in 1..Len(all) |->
                                          [key |-> all[i].r.name, val |-> all[i].r]],
                                      LAMBDA p : keep_restaurant(p.val, settings)))
                ELSE <<>>]

\* map(lambda p: self.make_resturant(p, date), self._plugins)
map_make_resturant(ms, date, outcomes) ==
    [i \in 1..Len(ms) |-> make_resturant(ms[i], date, outcomes[ms[i].module])]

run_pass(ms, outcomes, all) == finish_pass(ms, outcomes, all, FirstRaised(all))

\* self._plugins after the first two lines of get_dishes: the generator of
\* _load_plugins is created when _plugins is None.
plugin_generator ==
    IF ~plugins.created
    THEN [created |-> TRUE, remaining |-> _load_plugins(directory)]
    ELSE plugins

\* The plugins the next get_dishes pass takes from the generator.
ToInvoke == {plugin_generator.remaining[i].module : i \in 1..Len(plugin_generator.remaining)}

\* Mat.get_dishes. sorted() consumes the generator; an exception of
\* make_resturant would leave the pass at that plugin.
get_dishes(date, outcomes) ==
    run_pass(plugin_generator.remaining, outcomes,
             map_make_resturant(plugin_generator.remaining, date, outcomes))

-----------------------------------------------------------------------------
(* PrintStream (mats/print_stream.py), from its description: the current   *)
(* indentation depth and the buffered lines. "raised" marks an exception   *)
(* on its way out of the calls made on the stream: every later call of the *)
(* same statement is skipped.                                              *)

\* PrintStream.line
line(s, text, style) ==
    IF s.raised THEN s
    ELSE [s EXCEPT !.lines = Append(@, [indent |-> s.indent, text |-> text,
                                        style |-> style])]

\* PrintStream.error
error(s, text) ==
    IF s.raised THEN s
    ELSE [s EXCEPT !.lines = Append(@, [indent |-> s.indent, text |-> text,
                                        style |-> "error"])]

\* PrintStream.newline
newline(s) ==
    IF s.raised THEN s
    ELSE [s EXCEPT !.lines = Append(@, [indent |-> 0, text |-> <<>>, style |-> "blank"])]

\* The stream as the body of with_indent sees it: one level deeper.
Indented(s) == [s EXCEPT !.indent = @ + 1]

\* PrintStream.with_indent(body), t being the stream as body left it when
\* run on Indented(s): the depth is restored on every exit path.
with_indent(s, t) ==
    IF s.raised THEN s ELSE [t EXCEPT !.indent = @ - 1]

\* PrintStream.conditional(predicate, body), t being the stream as body
\* leaves it when run on s.
conditional(s, predicate, t) ==
    IF s.raised \/ ~predicate THEN s ELSE t

Raise(s) == [s EXCEPT !.raised = TRUE]

-----------------------------------------------------------------------------
(* Rendering.                                                              *)

\* "* ", "## ", "Plugin Error (" and "):"
BulletPrefix == <<42, 32>>
HeadingPrefix == <<35, 35, 32>>
PluginErrorOpen == <<80, 108, 117, 103, 105, 110, 32, 69, 114, 114, 111, 114, 32, 40>>
PluginErrorClose == <<41, 58>>

describe_dish_flat(s, dish) ==
    IF ~Truthy(dish.title) /\ ~dish.description.some
    THEN Raise(s)
    ELSE LET title == IF Truthy(dish.title) THEN dish.title.val
                      ELSE infer_title(dish.description.val)
             prefix == IF settings.print_markdown THEN BulletPrefix ELSE <<>>
             s1 == line(s, prefix \o title, "subheading")
         IN  IF settings.verbose /\ Truthy(dish.description)
             THEN line(s1, prefix \o dish.description.val, "body")
             ELSE s1

\* Mat.describe_dish. len(None) in infer_title raises TypeError.
describe_dish(s, dish) ==
    IF s.raised THEN s
    ELSE IF ~Truthy(dish.title) /\ ~dish.description.some
    THEN Raise(s)
    ELSE LET title == IF Truthy(dish.title) THEN dish.title.val
                      ELSE infer_title(dish.description.val)
             prefix == IF settings.print_markdown THEN BulletPrefix ELSE <<>>
             s1 == line(s, prefix \o title, "subheading")
         IN  IF settings.verbose /\ Truthy(dish.description)
             THEN with_indent(s1, line(Indented(s1), prefix \o dish.description.val, "body"))
             ELSE s1

\* list(map(self.describe_dish, restaurant.dishes)): the dishes in order; a
\* generator that fails raises once its items are consumed.
RECURSIVE describe_dishes(_, _, _)
describe_dishes(s, items, fails) ==
    IF s.raised THEN s
    ELSE IF items = <<>> THEN (IF fails THEN Raise(s) ELSE s)
    ELSE describe_dishes(describe_dish(s, Head(items)), Tail(items), fails)

\* The statement of describe_error's lambda, run on the indented stream s0:
\* s.line(...).with_indent(...).conditional(...)
describe_error_body(s0, restaurant) ==
    conditional(
        with_indent(
            line(s0, PluginErrorOpen \o restaurant.error.type \o PluginErrorClose, "default"),
            line(Indented(line(s0, PluginErrorOpen \o restaurant.error.type
                                     \o PluginErrorClose, "default")),
                 restaurant.error.msg, "default")),
        settings.with_stacktrace,
        error(with_indent(
                  line(s0, PluginErrorOpen \o restaurant.error.type \o PluginErrorClose,
                       "default"),
                  line(Indented(line(s0, PluginErrorOpen \o restaurant.error.type
                                           \o PluginErrorClose, "default")),
                       restaurant.error.msg, "default")),
              <<NEWLINE>> \o restaurant.errorTrace.val))

\* Mat.describe_error
describe_error(s, restaurant) ==
    with_indent(s, describe_error_body(Indented(s), restaurant))

\* The Restaurant's dishes or its error, after the heading line.
describe_menu_body(s1, restaurant) ==
    IF ~restaurant.error.some
    THEN with_indent(s1, describe_dishes(Indented(s1), restaurant.dishes.items,
                                         restaurant.dishes.fails))
    ELSE describe_error(s1, restaurant)

\* Mat.describe_menu
describe_menu(s, restaurant) ==
    newline(describe_menu_body(
        line(s, (IF settings.print_markdown THEN HeadingPrefix ELSE <<>>)
                \o restaurant.name, "heading"),
        restaurant))

\* Mat.__print_date_heading: printed at once, not through the stream.
print_date_heading(date) ==
    IF ~settings.print_markdown
    THEN <<[indent |-> 0, text |-> <<date>>, style |-> "date"]>>
    ELSE <<>>

-----------------------------------------------------------------------------
(* The Mat instance and its callers.                                       *)

\* datetime.date.today(), as a day number, and the dates a caller may pass
Dates == {0, 1}

Init ==
    /\ settings \in Settings
    /\ directory \in Directories
    /\ plugins = [created |-> FALSE, remaining |-> <<>>]
    /\ calls = 0
    /\ made = <<>>
    /\ result = <<>>
    /\ pc = "idle"
    /\ pending = <<>>
    /\ rendered = <<>>
    /\ stream = [indent |-> 0, lines |-> <<>>, raised |-> FALSE]
    /\ out = <<>>
    /\ StrIdle

\* date += timedelta(days=1) of print_menu
shifted(date) == IF settings.tomorrow THEN date + 1 ELSE date

\* get_dishes returns g.result, or raises.
ReturnDishes(g, then) ==
    /\ plugins' = g.plugins
    /\ made' = g.made
    /\ result' = g.result
    /\ pc' = IF g.raised THEN "aborted" ELSE then

\* A caller's get_dishes(date).
GetDishes ==
    /\ pc \in {"idle", "done"}
    /\ calls < MaxCalls
    /\ \E date \in Dates, outcomes \in [ToInvoke -> Outcomes] :
         ReturnDishes(get_dishes(date, outcomes), "idle")
    /\ calls' = calls + 1
    /\ UNCHANGED <<settings, directory, pending, rendered, stream, out>>
    /\ UNCHANGED strVars

\* print_menu(date) up to its for loop: the date heading and get_dishes.
PrintMenu ==
    /\ pc \in {"idle", "done"}
    /\ calls < MaxCalls
    /\ \E date \in Dates, outcomes \in [ToInvoke -> Outcomes] :
         /\ out' = print_date_heading(shifted(date))
         /\ ReturnDishes(get_dishes(shifted(date), outcomes), "describe")
    /\ pending' = result'
    /\ calls' = calls + 1
    /\ rendered' = <<>>
    /\ UNCHANGED <<settings, directory, stream>>
    /\ UNCHANGED strVars

\* describe_menu(r, date) left the stream as s.
Described(r, s) ==
    /\ stream' = s
    /\ IF s.raised
       THEN /\ pc' = "aborted"
            /\ UNCHANGED <<pending, rendered>>
       ELSE /\ pc' = "describe"
            /\ pending' = Tail(pending)
            /\ rendered' = Append(rendered,
                   [r |-> r,
                    lines |-> SubSeq(s.lines, Len(stream.lines) + 1, Len(s.lines))])

\* One turn of the for loop of print_menu: describe_menu(r, date). An
\* exception leaves print_menu.
DescribeMenu ==
    /\ pc = "describe"
    /\ pending # <<>>
    /\ Described(Head(pending), describe_menu(stream, Head(pending)))
    /\ UNCHANGED <<settings, directory, plugins, calls, made, result, out>>
    /\ UNCHANGED strVars

\* The end of print_menu: self.stream.print() writes the buffered lines.
StreamPrint ==
    /\ pc = "describe"
    /\ pending = <<>>
    /\ out' = out \o stream.lines
    /\ stream' = [stream EXCEPT !.lines = <<>>]
    /\ pc' = "done"
    /\ UNCHANGED <<settings, directory, plugins, calls, made, result, pending, rendered>>
    /\ UNCHANGED strVars

Next == GetDishes \/ PrintMenu \/ DescribeMenu \/ StreamPrint

Spec == Init /\ [][Next]_vars

-----------------------------------------------------------------------------
(* Properties of get_dishes.                                               *)

Range(f) == {f[i] : i \in DOMAIN f}

\* The number of dishes a Restaurant has: those of its list, or those its
\* generator yields.
NumDishes(r) == Len(r.dishes.items)

\* The name() of the plugin loaded as module m.
NameOf(m) == (CHOOSE f \in directory : f.file = m \o PY).name

\* The position of module m in load order.
LoadIndex(m) ==
    CHOOSE i \in 1..Len(_load_plugins(directory)) : _load_plugins(directory)[i].module = m

\* C1: the sequence get_dishes returns is sorted ascending by Restaurant
\* name, compared as Python compares strings (by code point, so
\* case-sensitive): any two adjacent Restaurants r1, r2 have r1.name <= r2.name.
C1_SortedByName ==
    \A i \in 1..(Len(result) - 1) : StrLE(result[i].name, result[i + 1].name)

\* Both plugins are in the result, and the one loaded first comes last.
C1_Witness ==
    /\ Len(result) = 2
    /\ Len(made) = 2
    /\ made[1].r = result[2]
    /\ made[2].r = result[1]
    /\ StrLT(result[1].name, result[2].name)

\* C2: a plugin whose food call raises gets a Restaurant with the plugin's
\* name, an empty dish list, an error and its trace; every plugin later in
\* load order is still invoked in the same pass, and its Restaurant is in the
\* result whenever it has a dish, or an error while quiet is not set.
C2_RaiseIsIsolated ==
    \A i \in 1..Len(made) :
        made[i].outcome.kind = "raise" =>
            /\ ~made[i].raised
            /\ made[i].r.name = NameOf(made[i].module)
            /\ made[i].r.dishes = EmptyList
            /\ made[i].r.error.some
            /\ made[i].r.errorTrace.some
            /\ \A q \in (LoadIndex(made[i].module) + 1)..Len(_load_plugins(directory)) :
                   \E j \in (i + 1)..Len(made) :
                       /\ made[j].module = _load_plugins(directory)[q].module
                       /\ (NumDishes(made[j].r) >= 1
                             \/ (made[j].r.error.some /\ ~settings.quiet))
                          => made[j].r \in Range(result)

\* The first plugin raised, the second reported a dish and is in the result.
C2_Witness ==
    /\ Len(made) = 2
    /\ made[1].outcome.kind = "raise"
    /\ made[2].outcome.kind = "list"
    /\ NumDishes(made[2].r) >= 1
    /\ made[2].r \in Range(result)

\* C3: get_dishes returns a plugin's Restaurant if and only if the
\* Restaurant has at least one dish, or it has an error and quiet is not set.
C3_KeptIffDishOrShownError ==
    \A i \in 1..Len(made) :
        made[i].r \in Range(result)
            <=> (NumDishes(made[i].r) >= 1 \/ (made[i].r.error.some /\ ~settings.quiet))

\* C4: every get_dishes call, the first or a later one, invokes food on every
\* plugin of the set loaded from the directory.
C4_EveryCallInvokesEveryPlugin ==
    (calls >= 1 /\ pc # "aborted")
        => {made[i].module : i \in 1..Len(made)}
             = {_load_plugins(directory)[i].module : i \in 1..Len(_load_plugins(directory))}

-----------------------------------------------------------------------------
(* Properties of print_menu.                                               *)

\* C5: no fault of a single plugin aborts print_menu: it is never left by an
\* exception, whatever the plugins raise, return or yield.
C5_PrintMenuNeverAborts == pc # "aborted"

\* The depth and the text of each line.
Layout(lines) == [i \in 1..Len(lines) |-> <<lines[i].indent, lines[i].text>>]

TitlePrefix == IF settings.print_markdown THEN BulletPrefix ELSE <<>>

\* A title line at depth 1, and a description line at depth 2 when verbose
\* is set and the dish has a description.
ExpectedDish(dish) ==
    <<<<1, TitlePrefix \o (IF Truthy(dish.title) THEN dish.title.val
                           ELSE infer_title(dish.description.val))>>>>
    \o (IF settings.verbose /\ Truthy(dish.description)
        THEN <<<<2, TitlePrefix \o dish.description.val>>>>
        ELSE <<>>)

RECURSIVE ExpectedDishes(_)
ExpectedDishes(items) ==
    IF items = <<>> THEN <<>>
    ELSE ExpectedDish(Head(items)) \o ExpectedDishes(Tail(items))

\* The error-kind line at depth 1, the message at depth 2, and the trace
\* when with_stacktrace is set.
ExpectedError(r) ==
    <<<<1, PluginErrorOpen \o r.error.type \o PluginErrorClose>>, <<2, r.error.msg>>>>
    \o (IF settings.with_stacktrace
        THEN <<<<1, <<NEWLINE>> \o r.errorTrace.val>>>>
        ELSE <<>>)

\* The section of one Restaurant: the heading at depth 0, the dishes or the
\* error, one blank line.
ExpectedSection(r) ==
    <<<<0, (IF settings.print_markdown THEN HeadingPrefix ELSE <<>>) \o r.name>>>>
    \o (IF r.error.some THEN ExpectedError(r) ELSE ExpectedDishes(r.dishes.items))
    \o <<<<0, <<>>>>>>

RECURSIVE ExpectedSections(_)
ExpectedSections(rs) ==
    IF rs = <<>> THEN <<>>
    ELSE ExpectedSection(Head(rs)) \o ExpectedSections(Tail(rs))

-----------------------------------------------------------------------------
(* Properties of the string functions.                                     *)

\* C6: the title Food stores for a non-empty title string is never longer
\* than 100 characters, the truncation marker included, holds no newline and
\* has no leading or trailing whitespace.
C6_TitleAtMost100 ==
    (tpc = "Food" /\ arg # <<>>) =>
        /\ Len(food.title.val) <= 100
        /\ \A i \in 1..Len(food.title.val) : food.title.val[i] # NEWLINE
        /\ strip(food.title.val) = food.title.val

\* C7: infer_title returns a string of length at most 50, and the
\* description itself when the description is no longer than 50.
C7_InferredAtMost50 ==
    tpc = "infer_title" =>
        /\ Len(inferred) <= 50
        /\ Len(arg) <= 50 => inferred = arg

\* A description longer than 50 whose inferred title is exactly 50 long.
C7_Witness ==
    /\ tpc = "infer_title"
    /\ Len(arg) > 50
    /\ Len(inferred) = 50

C10_ListedBoundaryCharacters ==
    (tpc = "infer_title" /\ Len(arg) > 50 /\ arg[49] # SPACE) =>
        inferred = re_sub_tail(strip(Take(arg, 47)), ListedBoundary) \o DOTS

====
